---- MODULE Spec2Model ----
(***************************************************************************)
(* Model of the model/provider routing and settings layer of openwhispr:   *)
(*   - the model registry, the reasoning-provider view and the provider    *)
(*     resolver (models/ModelRegistry),                                    *)
(*   - the local-provider prompt formatter (createPromptFormatter),        *)
(*   - the settings store (hooks/useSettings),                             *)
(*   - the prompt studio and its test playground (components/ui/           *)
(*     PromptStudio).                                                      *)
(* JavaScript strings are TLC strings; Len, \o and SubSeq act on their     *)
(* characters, so substring tests and replacements are computed character  *)
(* by character.                                                           *)
(***************************************************************************)
EXTENDS Naturals, Sequences, FiniteSets, TLC

VARIABLES
  cloudProviders,       \* modelData.cloudProviders (catalog, read-only)
  localProviders,       \* modelData.localProviders (catalog, read-only)
  providers,            \* ModelRegistry.providers: a Map, in insertion order
  REASONING_PROVIDERS,  \* the view built once when the module is loaded
  registered,           \* history: every argument of registerProvider, in order
  call,                 \* the last registry/resolver call and what it returned
  fmt,                  \* the last formatPrompt call and what it returned
  localStorage,         \* window.localStorage: key -> string, for the keys present
  electronAPI,          \* whether the desktop shell installed window.electronAPI
  ipcCalls,             \* key-store calls of the last settings operation, in order
  cacheClears,          \* clearApiKeyCache calls of the last settings operation
  lastOp,               \* the last settings operation and its argument
  steps,                \* number of settings operations so far
  activeTab,            \* PromptStudio state: the tab shown
  editedAgentPrompt,    \* PromptStudio state
  editedRegularPrompt,  \* PromptStudio state
  testText,             \* PromptStudio state
  testResult,           \* PromptStudio state
  isLoading,            \* PromptStudio state
  alertDialog,          \* useDialogs: the title of the dialog shown, "" when none
  playground,           \* what renderTestPlayground read at the last render
  testRun,              \* the testPrompt call waiting for its provider, if any
  providerCalls,        \* the provider calls of the last testPrompt run
  lastEvent,            \* the handler that ran since the last render
  events                \* number of handlers and settings changes so far

regVars == <<cloudProviders, localProviders, providers, REASONING_PROVIDERS,
             registered, call>>

fmtVars == <<fmt>>

setVars == <<localStorage, electronAPI, ipcCalls, cacheClears, lastOp, steps>>

studioVars == <<activeTab, editedAgentPrompt, editedRegularPrompt, testText,
                testResult, isLoading, alertDialog, playground, testRun,
                providerCalls, lastEvent, events>>

vars == <<regVars, fmtVars, setVars, studioVars>>

----------------------------------------------------------------------------
(* JavaScript built-ins used by the sources.                               *)

\* String.prototype.includes
Includes(s, p) ==
  \E i \in 1..(Len(s) - Len(p) + 1) : SubSeq(s, i, i + Len(p) - 1) = p

\* Position (1-based) of the first occurrence of p in s, 0 when there is none.
IndexOf(s, p) ==
  IF Includes(s, p)
  THEN CHOOSE i \in 1..(Len(s) - Len(p) + 1) :
         /\ SubSeq(s, i, i + Len(p) - 1) = p
         /\ \A j \in 1..(i - 1) : SubSeq(s, j, j + Len(p) - 1) # p
  ELSE 0

\* Array.prototype.find on a sequence of records, by one field: the index of
\* the first element whose field equals v, 0 when there is none.
FindIndex(seq, field, v) ==
  IF \E i \in 1..Len(seq) : seq[i][field] = v
  THEN CHOOSE i \in 1..Len(seq) :
         /\ seq[i][field] = v
         /\ \A j \in 1..(i - 1) : seq[j][field] # v
  ELSE 0

\* Map.prototype.set / assignment to an object property: an existing key keeps
\* its place and gets the new value, a new key goes last.
KeyedSet(entries, field, e) ==
  IF FindIndex(entries, field, e[field]) = 0
  THEN Append(entries, e)
  ELSE [entries EXCEPT ![FindIndex(entries, field, e[field])] = e]

RECURSIVE Flatten(_)
Flatten(seqs) ==
  IF seqs = <<>> THEN <<>> ELSE Head(seqs) \o Flatten(Tail(seqs))

Char(s, i) == SubSeq(s, i, i)

\* GetSubstitution of String.prototype.replace for a string pattern (no
\* capture groups): in the replacement text "$$" stands for "$", "$&" for
\* the matched text and "$'" for the text after the match; any other "$" is
\* kept. ("$" followed by a backquote stands for the text before the match;
\* the inputs below hold no backquote, so that case is left out.)
RECURSIVE GetSubstitution(_, _, _, _, _)
GetSubstitution(matched, str, position, replacement, i) ==
  IF i > Len(replacement) THEN ""
  ELSE IF Char(replacement, i) = "$" /\ i < Len(replacement)
    THEN LET next == Char(replacement, i + 1)
         IN  IF next = "$"
               THEN "$" \o GetSubstitution(matched, str, position, replacement, i + 2)
             ELSE IF next = "&"
               THEN matched \o GetSubstitution(matched, str, position, replacement, i + 2)
             ELSE IF next = "'"
               THEN SubSeq(str, position + Len(matched), Len(str))
                      \o GetSubstitution(matched, str, position, replacement, i + 2)
             ELSE "$" \o GetSubstitution(matched, str, position, replacement, i + 1)
  ELSE Char(replacement, i)
         \o GetSubstitution(matched, str, position, replacement, i + 1)

\* String.prototype.replace(pattern: string, replacement: string): the first
\* occurrence only.
Replace(str, pattern, replacement) ==
  LET position == IndexOf(str, pattern)
  IN  IF position = 0 THEN str
      ELSE SubSeq(str, 1, position - 1)
             \o GetSubstitution(pattern, str, position, replacement, 1)
             \o SubSeq(str, position + Len(pattern), Len(str))

\* String.prototype.replaceAll, left to right.
RECURSIVE ReplaceAll(_, _, _)
ReplaceAll(str, pattern, replacement) ==
  LET position == IndexOf(str, pattern)
  IN  IF position = 0 THEN str
      ELSE SubSeq(str, 1, position - 1)
             \o GetSubstitution(pattern, str, position, replacement, 1)
             \o ReplaceAll(SubSeq(str, position + Len(pattern), Len(str)),
                           pattern, replacement)

----------------------------------------------------------------------------
(* The prompt formatter                                                   *)

\* A formatter that substitutes every occurrence of the markers.
formatPromptAll(template, text, systemPrompt) ==
  ReplaceAll(ReplaceAll(template, "{system}", systemPrompt), "{user}", text)

\* createPromptFormatter(template)(text, systemPrompt)
formatPrompt(template, text, systemPrompt) ==
  Replace(Replace(template, "{system}", systemPrompt), "{user}", text)

----------------------------------------------------------------------------
(* Catalog data (modelRegistryData.json): the shapes the sources declare.  *)

ModelDefinition(id, name, size) ==
  [id |-> id, name |-> name, size |-> size, description |-> name \o " model"]

CloudModelDefinition(id, name) ==
  [id |-> id, name |-> name, description |-> name \o " cloud model"]

LocalProviderData(id, name, template, models) ==
  [id |-> id, name |-> name, baseUrl |-> "https://hf.example",
   promptTemplate |-> template, models |-> models]

CloudProviderData(id, name, models) ==
  [id |-> id, name |-> name, models |-> models]

ChatMLTemplate == "<|im_start|>system:{system}<|im_end|>user:{user}<|im_end|>"
LlamaTemplate == "[INST]{system} {user}[/INST]"

OpenAICloud ==
  CloudProviderData("openai", "OpenAI",
    << CloudModelDefinition("gpt-5", "GPT-5"),
       CloudModelDefinition("gpt-4o-mini", "GPT-4o Mini") >>)
AnthropicCloud ==
  CloudProviderData("anthropic", "Anthropic",
    << CloudModelDefinition("claude-sonnet-4", "Claude Sonnet 4") >>)
GeminiCloud ==
  CloudProviderData("gemini", "Gemini",
    << CloudModelDefinition("gemini-2.5-flash", "Gemini 2.5 Flash"),
       CloudModelDefinition("gemma-3-27b-it", "Gemma 3 27B") >>)
GroqCloud ==
  CloudProviderData("groq", "Groq",
    << CloudModelDefinition("llama-3.3-70b-versatile", "Llama 3.3 70B"),
       CloudModelDefinition("openai/gpt-oss-20b", "GPT-OSS 20B") >>)

QwenLocal ==
  LocalProviderData("qwen", "Qwen", ChatMLTemplate,
    << ModelDefinition("qwen2.5-7b-instruct", "Qwen2.5 7B", "4.7GB"),
       ModelDefinition("qwen3-claude-distill", "Qwen3 Distill", "2.5GB") >>)
LlamaLocal ==
  LocalProviderData("llama", "Llama", LlamaTemplate,
    << ModelDefinition("llama-3.2-3b-instruct", "Llama 3.2 3B", "2.0GB") >>)
GemmaLocal ==
  LocalProviderData("gemma", "Gemma", ChatMLTemplate,
    << ModelDefinition("gemma-3-1b-it", "Gemma 3 1B", "0.8GB"),
       ModelDefinition("gpt-oss-20b-q4", "GPT-OSS 20B Q4", "12GB") >>)

\* Further providers: a newer revision of a catalog provider (same id, other
\* models), a new provider, and one that repeats model ids of other lists.
QwenLocalV2 ==
  LocalProviderData("qwen", "Qwen", ChatMLTemplate,
    << ModelDefinition("qwen3-8b", "Qwen3 8B", "5.0GB") >>)
PhiLocal ==
  LocalProviderData("phi", "Phi", ChatMLTemplate,
    << ModelDefinition("phi-4-mini", "Phi 4 Mini", "2.4GB"),
       ModelDefinition("mixtral-8x7b-local", "Mixtral 8x7B", "26GB") >>)
CloneLocal ==
  LocalProviderData("clone", "Clone", LlamaTemplate,
    << ModelDefinition("llama-3.2-3b-instruct", "Llama 3.2 3B (clone)", "2.0GB"),
       ModelDefinition("gpt-5", "Not GPT-5", "1.0GB") >>)

CloudCatalogs ==
  { <<>>,
    << OpenAICloud, AnthropicCloud >>,
    << GroqCloud, GeminiCloud, OpenAICloud >> }

\* The last catalog has a data defect: a local model id that a cloud provider
\* lists too.
LocalCatalogs ==
  { << LlamaLocal >>,
    << GemmaLocal, QwenLocal >>,
    << QwenLocal, LlamaLocal, GemmaLocal >>,
    << QwenLocal, CloneLocal >> }

RuntimeProviders == { QwenLocalV2, PhiLocal, CloneLocal }

\* At most this many registerProvider calls after start-up.
MaxRegister == 2

----------------------------------------------------------------------------
(* ModelRegistry                                                          *)

\* The Provider object registerProvidersFromData builds from one catalog
\* entry; promptTemplate stands for the formatter closure bound to it.
ModelProvider(providerData) ==
  [id |-> providerData.id, name |-> providerData.name,
   baseUrl |-> providerData.baseUrl, models |-> providerData.models,
   promptTemplate |-> providerData.promptTemplate]

\* A registry that puts a new provider first instead of last.
registerProviderFront(map, provider) ==
  IF FindIndex(map, "id", provider.id) = 0
  THEN <<provider>> \o map
  ELSE [map EXCEPT ![FindIndex(map, "id", provider.id)] = provider]

\* A registry that keeps the provider an id was first registered with.
registerProviderKeepFirst(map, provider) ==
  IF FindIndex(map, "id", provider.id) = 0 THEN Append(map, provider) ELSE map

registerProvider(map, provider) == KeyedSet(map, "id", provider)

RECURSIVE registerProvidersFromData(_, _)
registerProvidersFromData(map, data) ==
  IF data = <<>> THEN map
  ELSE registerProvidersFromData(
         registerProvider(map, ModelProvider(Head(data))), Tail(data))

getProvider(map, providerId) ==
  IF FindIndex(map, "id", providerId) = 0
  THEN [found |-> FALSE]
  ELSE [found |-> TRUE, provider |-> map[FindIndex(map, "id", providerId)]]

getAllProviders(map) == map

TagModels(provider) ==
  [j \in 1..Len(provider.models) |->
     [id |-> provider.models[j].id, name |-> provider.models[j].name,
      size |-> provider.models[j].size,
      description |-> provider.models[j].description,
      providerId |-> provider.id]]

getAllModels(map) == Flatten([i \in 1..Len(map) |-> TagModels(map[i])])

getModel(map, modelId) ==
  LET hits == { i \in 1..Len(map) : FindIndex(map[i].models, "id", modelId) # 0 }
      first == CHOOSE i \in hits : \A j \in hits : i <= j
  IN  IF hits = {} THEN [found |-> FALSE]
      ELSE [found |-> TRUE, provider |-> map[first],
            model |-> map[first].models[FindIndex(map[first].models, "id", modelId)]]

----------------------------------------------------------------------------
(* The reasoning-provider view                                            *)

CloudBucket(cloudProvider) ==
  [key |-> cloudProvider.id, name |-> cloudProvider.name,
   models |-> [j \in 1..Len(cloudProvider.models) |->
                 [value |-> cloudProvider.models[j].id,
                  label |-> cloudProvider.models[j].name,
                  description |-> cloudProvider.models[j].description]]]

LocalBucket(allModels) ==
  [key |-> "local", name |-> "Local AI",
   models |-> [j \in 1..Len(allModels) |->
                 [value |-> allModels[j].id,
                  label |-> allModels[j].name,
                  description |->
                    allModels[j].description \o " (" \o allModels[j].size \o ")"]]]

RECURSIVE CloudBuckets(_, _)
CloudBuckets(view, cloud) ==
  IF cloud = <<>> THEN view
  ELSE CloudBuckets(KeyedSet(view, "key", CloudBucket(Head(cloud))), Tail(cloud))

\* An object is its entries in property order.
buildReasoningProviders(cloud, map) ==
  KeyedSet(CloudBuckets(<<>>, cloud), "key", LocalBucket(getAllModels(map)))

getAllReasoningModels ==
  Flatten([i \in 1..Len(REASONING_PROVIDERS) |->
     [j \in 1..Len(REASONING_PROVIDERS[i].models) |->
        [value |-> REASONING_PROVIDERS[i].models[j].value,
         label |-> REASONING_PROVIDERS[i].models[j].label,
         description |-> REASONING_PROVIDERS[i].models[j].description,
         provider |-> REASONING_PROVIDERS[i].key,
         fullLabel |-> REASONING_PROVIDERS[i].name \o " "
                         \o REASONING_PROVIDERS[i].models[j].label]]])

\* The label lookup that leaves the provider's display name out.
getReasoningModelLabelBare(modelId) ==
  LET all == getAllReasoningModels
      i == FindIndex(all, "value", modelId)
  IN  IF i # 0 /\ all[i].label # "" THEN all[i].label ELSE modelId

getReasoningModelLabel(modelId) ==
  LET all == getAllReasoningModels
      i == FindIndex(all, "value", modelId)
  IN  IF i # 0 /\ all[i].fullLabel # "" THEN all[i].fullLabel ELSE modelId

----------------------------------------------------------------------------
(* The provider resolver                                                  *)

\* The resolver that asks the heuristic rules first and the view only when no
\* rule matches.
getModelProviderHeuristicsFirst(modelId) ==
  LET all == getAllReasoningModels
      i == FindIndex(all, "value", modelId)
  IN  IF Includes(modelId, "claude") THEN "anthropic"
      ELSE IF Includes(modelId, "gemini") /\ ~Includes(modelId, "gemma")
        THEN "gemini"
      ELSE IF (Includes(modelId, "gpt-4") \/ Includes(modelId, "gpt-5"))
              /\ ~Includes(modelId, "gpt-oss")
        THEN "openai"
      ELSE IF \/ Includes(modelId, "qwen/")
              \/ Includes(modelId, "openai/")
              \/ Includes(modelId, "llama-3.1-8b-instant")
              \/ Includes(modelId, "llama-3.3-")
              \/ Includes(modelId, "mixtral-")
              \/ Includes(modelId, "gemma2-")
        THEN "groq"
      ELSE IF \/ Includes(modelId, "qwen")
              \/ Includes(modelId, "llama")
              \/ Includes(modelId, "mistral")
              \/ Includes(modelId, "gpt-oss-20b-mxfp4")
        THEN "local"
      ELSE IF i # 0 THEN all[i].provider
      ELSE ""

\* The resolver with the "local" rule tried before the "groq" rule.
getModelProviderLocalFirst(modelId) ==
  LET all == getAllReasoningModels
      i == FindIndex(all, "value", modelId)
  IN  IF i = 0
      THEN IF Includes(modelId, "claude") THEN "anthropic"
           ELSE IF Includes(modelId, "gemini") /\ ~Includes(modelId, "gemma")
             THEN "gemini"
           ELSE IF (Includes(modelId, "gpt-4") \/ Includes(modelId, "gpt-5"))
                   /\ ~Includes(modelId, "gpt-oss")
             THEN "openai"
           ELSE IF \/ Includes(modelId, "qwen")
                   \/ Includes(modelId, "llama")
                   \/ Includes(modelId, "mistral")
                   \/ Includes(modelId, "gpt-oss-20b-mxfp4")
             THEN "local"
           ELSE IF \/ Includes(modelId, "qwen/")
                   \/ Includes(modelId, "openai/")
                   \/ Includes(modelId, "llama-3.1-8b-instant")
                   \/ Includes(modelId, "llama-3.3-")
                   \/ Includes(modelId, "mixtral-")
                   \/ Includes(modelId, "gemma2-")
             THEN "groq"
           ELSE ""
      ELSE all[i].provider

getModelProvider(modelId) ==
  LET all == getAllReasoningModels
      i == FindIndex(all, "value", modelId)
  IN  IF i = 0
      THEN IF Includes(modelId, "claude") THEN "anthropic"
           ELSE IF Includes(modelId, "gemini") /\ ~Includes(modelId, "gemma")
             THEN "gemini"
           ELSE IF (Includes(modelId, "gpt-4") \/ Includes(modelId, "gpt-5"))
                   /\ ~Includes(modelId, "gpt-oss")
             THEN "openai"
           ELSE IF \/ Includes(modelId, "qwen/")
                   \/ Includes(modelId, "openai/")
                   \/ Includes(modelId, "llama-3.1-8b-instant")
                   \/ Includes(modelId, "llama-3.3-")
                   \/ Includes(modelId, "mixtral-")
                   \/ Includes(modelId, "gemma2-")
             THEN "groq"
           ELSE IF \/ Includes(modelId, "qwen")
                   \/ Includes(modelId, "llama")
                   \/ Includes(modelId, "mistral")
                   \/ Includes(modelId, "gpt-oss-20b-mxfp4")
             THEN "local"
           ELSE ""
      ELSE all[i].provider

----------------------------------------------------------------------------
(* Inputs of the resolver and of the label lookup                         *)

IdPrefixes ==
  { "", "x-", "claude-", "gemini-", "gemma", "gpt-4", "gpt-5", "gpt-oss",
    "qwen", "openai", "llama", "mixtral", "mistral" }

IdSuffixes ==
  { "", "o", "/m", "-3.1-8b-instant", "-3.3-70b", "-8x7b", "2-9b",
    "-20b-mxfp4", "-claude", "-gemini", "-gemma", "-gpt-oss", "-llama",
    "-qwen" }

ModelIdsOf(providerSet) ==
  UNION { { p.models[j].id : j \in 1..Len(p.models) } : p \in providerSet }

PoolModelIds ==
  ModelIdsOf({ OpenAICloud, AnthropicCloud, GeminiCloud, GroqCloud, QwenLocal,
               LlamaLocal, GemmaLocal, QwenLocalV2, PhiLocal, CloneLocal })

QueryIds == { p \o s : p \in IdPrefixes, s \in IdSuffixes } \cup PoolModelIds

LabelIds == PoolModelIds \cup { "", "llama", "unknown-model-xyz" }

ProviderIds == { "qwen", "llama", "gemma", "phi", "clone", "openai", "local", "" }

----------------------------------------------------------------------------
(* The registry and resolver as a state machine                           *)

Range(seq) == { seq[i] : i \in 1..Len(seq) }

\* No call is in progress: the caller has taken the last result.
Idle == [op |-> "idle", arg |-> "", ret |-> ""]

RegistryInit ==
  /\ cloudProviders \in CloudCatalogs
  /\ localProviders \in LocalCatalogs
  /\ providers = registerProvidersFromData(<<>>, localProviders)
  /\ REASONING_PROVIDERS = buildReasoningProviders(cloudProviders, providers)
  /\ registered = [i \in 1..Len(localProviders) |-> ModelProvider(localProviders[i])]
  /\ call = Idle

RegisterProvider ==
  /\ call.op = "idle"
  /\ Len(registered) - Len(localProviders) < MaxRegister
  /\ \E data \in RuntimeProviders \cup Range(localProviders) :
       /\ providers' = registerProvider(providers, ModelProvider(data))
       /\ registered' = Append(registered, ModelProvider(data))
       /\ call' = [op |-> "registerProvider", arg |-> data.id, ret |-> ""]
  /\ UNCHANGED <<cloudProviders, localProviders, REASONING_PROVIDERS>>

GetProvider ==
  /\ call.op = "idle"
  /\ \E providerId \in ProviderIds :
       call' = [op |-> "getProvider", arg |-> providerId,
                ret |-> getProvider(providers, providerId)]
  /\ UNCHANGED <<cloudProviders, localProviders, providers,
                 REASONING_PROVIDERS, registered>>

GetAllProviders ==
  /\ call.op = "idle"
  /\ call' = [op |-> "getAllProviders", arg |-> "",
              ret |-> getAllProviders(providers)]
  /\ UNCHANGED <<cloudProviders, localProviders, providers,
                 REASONING_PROVIDERS, registered>>

GetModel ==
  /\ call.op = "idle"
  /\ \E modelId \in LabelIds :
       call' = [op |-> "getModel", arg |-> modelId,
                ret |-> getModel(providers, modelId)]
  /\ UNCHANGED <<cloudProviders, localProviders, providers,
                 REASONING_PROVIDERS, registered>>

GetAllModels ==
  /\ call.op = "idle"
  /\ call' = [op |-> "getAllModels", arg |-> "", ret |-> getAllModels(providers)]
  /\ UNCHANGED <<cloudProviders, localProviders, providers,
                 REASONING_PROVIDERS, registered>>

GetReasoningModelLabel ==
  /\ call.op = "idle"
  /\ \E modelId \in LabelIds :
       call' = [op |-> "getReasoningModelLabel", arg |-> modelId,
                ret |-> getReasoningModelLabel(modelId)]
  /\ UNCHANGED <<cloudProviders, localProviders, providers,
                 REASONING_PROVIDERS, registered>>

GetModelProvider ==
  /\ call.op = "idle"
  /\ \E modelId \in QueryIds :
       call' = [op |-> "getModelProvider", arg |-> modelId,
                ret |-> getModelProvider(modelId)]
  /\ UNCHANGED <<cloudProviders, localProviders, providers,
                 REASONING_PROVIDERS, registered>>

Return ==
  /\ call.op # "idle"
  /\ call' = Idle
  /\ UNCHANGED <<cloudProviders, localProviders, providers,
                 REASONING_PROVIDERS, registered>>

----------------------------------------------------------------------------
(* The prompt formatter as a state machine                                *)

Templates ==
  { ChatMLTemplate, LlamaTemplate, "SYS:{system} USR:{user}",
    "{system}{system}{user}{user}", "{user} then {system} and {user}",
    "no markers", "{system} only" }

Texts == { "hello", "", "{system}", "$&", "a$$b" }

SystemPrompts == { "be terse", "", "see {user}", "tail $'", "cost $$5" }

FormatIdle ==
  [op |-> "idle", template |-> "", text |-> "", systemPrompt |-> "", ret |-> ""]

FormatPrompt ==
  /\ fmt.op = "idle"
  /\ \E template \in Templates, text \in Texts, systemPrompt \in SystemPrompts :
       fmt' = [op |-> "formatPrompt", template |-> template, text |-> text,
               systemPrompt |-> systemPrompt,
               ret |-> formatPrompt(template, text, systemPrompt)]

FormatReturn ==
  /\ fmt.op # "idle"
  /\ fmt' = FormatIdle

----------------------------------------------------------------------------
(* Properties of the registry and the resolver                            *)

\* The catalog's ids: every model id of a cloud or local provider list.
CatalogIds == ModelIdsOf(Range(cloudProviders)) \cup ModelIdsOf(Range(localProviders))

\* The ids getAllModels() returned when the module was loaded.
LoadTimeLocalIds == ModelIdsOf(Range(localProviders))

\* The entries of getAllModels() now.
CurrentModels == getAllModels(providers)

\* C1 as stated: for every model that getAllModels() returns,
\* getModelProvider(model.id) is the providerId getAllModels() reports for it.
C1_ResolvesToOwner ==
  call.op = "getModelProvider" =>
    \A k \in 1..Len(CurrentModels) :
      CurrentModels[k].id = call.arg => call.ret = CurrentModels[k].providerId

\* C1 amended: for every model of the catalog's local providers (what
\* getAllModels() returned when the view was built) that no cloud provider
\* lists, getModelProvider returns "local", the key of the bucket of the view
\* that lists it, whatever the heuristic rules would say about the id.
C1_LoadTimeModelResolvesToLocal ==
  ( /\ call.op = "getModelProvider"
    /\ call.arg \in LoadTimeLocalIds
    /\ call.arg \notin ModelIdsOf(Range(cloudProviders)) ) =>
    call.ret = "local"

\* A local catalog model whose id the heuristics would give to anthropic has
\* been resolved, and a provider was registered after start-up.
C1_Witness ==
  /\ call.op = "getModelProvider"
  /\ call.arg = "qwen3-claude-distill"
  /\ call.arg \in LoadTimeLocalIds
  /\ call.ret = "local"
  /\ Len(registered) > Len(localProviders)

\* The ordered rule table of the resolver: a rule matches an id that contains
\* one of its any-patterns and none of its none-patterns.
HeuristicRules ==
  << [any |-> {"claude"}, none |-> {}, provider |-> "anthropic"],
     [any |-> {"gemini"}, none |-> {"gemma"}, provider |-> "gemini"],
     [any |-> {"gpt-4", "gpt-5"}, none |-> {"gpt-oss"}, provider |-> "openai"],
     [any |-> {"qwen/", "openai/", "llama-3.1-8b-instant", "llama-3.3-",
               "mixtral-", "gemma2-"}, none |-> {}, provider |-> "groq"],
     [any |-> {"qwen", "llama", "mistral", "gpt-oss-20b-mxfp4"}, none |-> {},
      provider |-> "local"] >>

RuleMatches(rule, id) ==
  /\ \E p \in rule.any : Includes(id, p)
  /\ \A p \in rule.none : ~Includes(id, p)

FirstRuleProvider(id) ==
  LET hits == { r \in 1..Len(HeuristicRules) : RuleMatches(HeuristicRules[r], id) }
  IN  IF hits = {} THEN ""
      ELSE HeuristicRules[CHOOSE r \in hits : \A q \in hits : r <= q].provider

\* C2: an id that is in no catalog list resolves to the provider of the first
\* matching rule of the ordered table, and to "" when no rule matches; an id
\* matching a groq and a local pattern (and no earlier rule) resolves to groq.
C2_HeuristicOrder ==
  (call.op = "getModelProvider" /\ call.arg \notin CatalogIds) =>
    /\ call.ret = FirstRuleProvider(call.arg)
    /\ ( /\ RuleMatches(HeuristicRules[4], call.arg)
         /\ RuleMatches(HeuristicRules[5], call.arg)
         /\ \A r \in 1..3 : ~RuleMatches(HeuristicRules[r], call.arg) )
       => call.ret = "groq"

\* An uncatalogued id that matches a groq pattern and a local pattern has been
\* resolved.
C2_Witness ==
  /\ call.op = "getModelProvider"
  /\ call.arg = "llama-3.3-70b"
  /\ call.arg \notin CatalogIds
  /\ RuleMatches(HeuristicRules[5], call.arg)
  /\ call.ret = "groq"

\* Sum of the model counts of the first n registered providers.
RECURSIVE ModelCount(_)
ModelCount(n) ==
  IF n = 0 THEN 0 ELSE ModelCount(n - 1) + Len(registered[n].models)

DistinctProviderIds ==
  \A i, j \in 1..Len(registered) : registered[i].id = registered[j].id => i = j

DisjointModelLists ==
  \A i, j \in 1..Len(registered) :
    i # j => ModelIdsOf({registered[i]}) \cap ModelIdsOf({registered[j]}) = {}

\* C7: when the registered providers have distinct ids and share no model id,
\* getAllModels() has as many entries as the providers have models, in
\* registration order and then list order, each tagged with its provider's id.
C7_GetAllModelsOrder ==
  (call.op = "getAllModels" /\ DistinctProviderIds /\ DisjointModelLists) =>
    /\ Len(call.ret) = ModelCount(Len(registered))
    /\ \A i \in 1..Len(registered) : \A j \in 1..Len(registered[i].models) :
         LET e == call.ret[ModelCount(i - 1) + j]
             m == registered[i].models[j]
         IN  /\ e.id = m.id
             /\ e.name = m.name
             /\ e.size = m.size
             /\ e.description = m.description
             /\ e.providerId = registered[i].id

\* getAllModels() was called after a provider with a new id was registered at
\* run time on top of a catalog of two providers.
C7_Witness ==
  /\ call.op = "getAllModels"
  /\ DistinctProviderIds /\ DisjointModelLists
  /\ Len(localProviders) >= 2
  /\ Len(registered) > Len(localProviders)
  /\ Len(call.ret) >= 5

\* The places <<bucket, index>> of the view that hold the given value, and the
\* first of them in the order of the flattened view.
ViewHits(modelId) ==
  UNION { { <<b, j>> : j \in { k \in 1..Len(REASONING_PROVIDERS[b].models) :
                               REASONING_PROVIDERS[b].models[k].value = modelId } } :
          b \in 1..Len(REASONING_PROVIDERS) }

FirstViewHit(modelId) ==
  CHOOSE bj \in ViewHits(modelId) :
    \A ck \in ViewHits(modelId) :
      bj[1] < ck[1] \/ (bj[1] = ck[1] /\ bj[2] <= ck[2])

\* C8: getReasoningModelLabel returns "<provider name> <model label>" of the
\* first entry of the view with that value, with provider name "Local AI" for
\* an entry of the local bucket, and the id itself when no entry has it.
C8_LabelOrPassthrough ==
  call.op = "getReasoningModelLabel" =>
    IF ViewHits(call.arg) = {}
    THEN call.ret = call.arg
    ELSE LET bj == FirstViewHit(call.arg)
             bucket == REASONING_PROVIDERS[bj[1]]
         IN  /\ call.ret = bucket.name \o " " \o bucket.models[bj[2]].label
             /\ bucket.key = "local" =>
                  call.ret = "Local AI " \o bucket.models[bj[2]].label

\* The label of a local model was asked for and came back with the bucket's
\* name in front.
C8_WitnessHit ==
  /\ call.op = "getReasoningModelLabel"
  /\ call.arg = "llama-3.2-3b-instruct"
  /\ call.ret = "Local AI Llama 3.2 3B"

----------------------------------------------------------------------------
(* The settings store (useSettings)                                       *)

BoolTrueCells == { "useLocalWhisper", "allowOpenAIFallback", "allowLocalFallback" }

BoolNotFalseCells == { "useReasoningModel", "preferBuiltInMic" }

BoolCells == BoolTrueCells \cup BoolNotFalseCells

ApiKeyCells == { "openaiApiKey", "anthropicApiKey", "geminiApiKey", "groqApiKey" }

StringCells ==
  { "whisperModel", "fallbackWhisperModel", "preferredLanguage",
    "cloudTranscriptionProvider", "cloudTranscriptionModel",
    "cloudTranscriptionBaseUrl", "cloudReasoningBaseUrl", "reasoningModel",
    "dictationKey", "selectedMicDeviceId" } \cup ApiKeyCells

CellKeys == BoolCells \cup StringCells \cup { "activationMode" }

\* API_ENDPOINTS of config/constants.
TRANSCRIPTION_BASE == "https://api.openai.com/v1"
OPENAI_BASE == "https://api.openai.com/v1"

\* The second argument of each useLocalStorage call.
DefaultValue(key) ==
  CASE key \in BoolTrueCells -> FALSE
    [] key \in BoolNotFalseCells -> TRUE
    [] key = "activationMode" -> "tap"
    [] key \in { "whisperModel", "fallbackWhisperModel" } -> "base"
    [] key = "preferredLanguage" -> "en"
    [] key = "cloudTranscriptionProvider" -> "openai"
    [] key = "cloudTranscriptionModel" -> "gpt-4o-mini-transcribe"
    [] key = "cloudTranscriptionBaseUrl" -> TRANSCRIPTION_BASE
    [] key = "cloudReasoningBaseUrl" -> OPENAI_BASE
    [] OTHER -> ""

\* serialize: String, on a boolean and on a string.
serializeAsNumber(key, value) ==
  IF key \in BoolCells THEN (IF value THEN "1" ELSE "0") ELSE value

serialize(key, value) ==
  IF key \in BoolCells THEN (IF value THEN "true" ELSE "false") ELSE value

\* Every boolean cell read with the strict "true" convention and the
\* activation mode falling back to "push".
deserializeUniform(key, item) ==
  CASE key \in BoolCells -> item = "true"
    [] key = "activationMode" -> IF item = "tap" THEN "tap" ELSE "push"
    [] OTHER -> item

\* The deserialize option of each cell.
deserialize(key, item) ==
  CASE key \in BoolTrueCells -> item = "true"
    [] key \in BoolNotFalseCells -> item # "false"
    [] key = "activationMode" -> IF item = "push" THEN "push" ELSE "tap"
    [] OTHER -> item

\* Storage.setItem / Storage.removeItem on a key -> string map.
SetItem(storage, key, item) ==
  [k \in DOMAIN storage \cup {key} |-> IF k = key THEN item ELSE storage[k]]

RemoveItem(storage, key) ==
  [k \in DOMAIN storage \ {key} |-> storage[k]]

\* useLocalStorage: the value of a cell is the stored string deserialized, or
\* the default while nothing is stored; its setter stores the serialized
\* value at once.
CellValueOf(storage, key) ==
  IF key \in DOMAIN storage THEN deserialize(key, storage[key])
  ELSE DefaultValue(key)

CellValue(key) == CellValueOf(localStorage, key)

\* The effects of a settings operation so far: the storage, and the calls
\* made to the key store and to the reasoning service.
Effects(storage) == [storage |-> storage, ipc |-> <<>>, clears |-> <<>>]

setValue(st, key, value) ==
  [st EXCEPT !.storage = SetItem(@, key, serialize(key, value))]

\* The wrapped API-key setters: which key-store method and which cache entry
\* goes with each key cell.
ApiKeySetters ==
  [openaiApiKey |-> [save |-> "saveOpenAIKey", provider |-> "openai"],
   anthropicApiKey |-> [save |-> "saveAnthropicKey", provider |-> "anthropic"],
   geminiApiKey |-> [save |-> "saveGeminiKey", provider |-> "gemini"],
   groqApiKey |-> [save |-> "saveGroqKey", provider |-> "groq"]]

\* An API-key setter that writes the cell and the key store but leaves the
\* cache alone.
setApiKeyNoInvalidate(st, cell, key) ==
  LET stored == setValue(st, cell, key)
  IN  IF electronAPI
      THEN [stored EXCEPT !.ipc = Append(@, <<ApiKeySetters[cell].save, key>>)]
      ELSE stored

\* setOpenaiApiKey, setAnthropicApiKey, setGeminiApiKey, setGroqApiKey
setApiKey(st, cell, key) ==
  LET stored == setValue(st, cell, key)
      saved == IF electronAPI
               THEN [stored EXCEPT !.ipc = Append(@, <<ApiKeySetters[cell].save, key>>)]
               ELSE stored
  IN  [saved EXCEPT !.clears = Append(@, ApiKeySetters[cell].provider)]

\* The single-field setter useSettings returns for a cell.
setter(st, cell, value) ==
  IF cell \in ApiKeyCells THEN setApiKey(st, cell, value)
  ELSE setValue(st, cell, value)

\* Computed values
reasoningProviderStored == 
  IF "reasoningProvider" \in DOMAIN localStorage
  THEN localStorage["reasoningProvider"]
  ELSE getModelProvider(CellValue("reasoningModel"))

reasoningProvider == getModelProvider(CellValue("reasoningModel"))

\* A field of a batch argument: undefined, or a value.
Undefined(field) == [present |-> FALSE, value |-> DefaultValue(field)]
Given(value) == [present |-> TRUE, value |-> value]

\* A batch update that skips a field whose value is falsy ("" or false).
updateApiKeysTruthy(st, keys) ==
  LET s1 == IF keys.openaiApiKey.present /\ keys.openaiApiKey.value # ""
            THEN setApiKey(st, "openaiApiKey", keys.openaiApiKey.value) ELSE st
      s2 == IF keys.anthropicApiKey.present /\ keys.anthropicApiKey.value # ""
            THEN setApiKey(s1, "anthropicApiKey", keys.anthropicApiKey.value) ELSE s1
      s3 == IF keys.geminiApiKey.present /\ keys.geminiApiKey.value # ""
            THEN setApiKey(s2, "geminiApiKey", keys.geminiApiKey.value) ELSE s2
      s4 == IF keys.groqApiKey.present /\ keys.groqApiKey.value # ""
            THEN setApiKey(s3, "groqApiKey", keys.groqApiKey.value) ELSE s3
  IN  s4

updateApiKeys(st, keys) ==
  LET s1 == IF keys.openaiApiKey.present
            THEN setApiKey(st, "openaiApiKey", keys.openaiApiKey.value) ELSE st
      s2 == IF keys.anthropicApiKey.present
            THEN setApiKey(s1, "anthropicApiKey", keys.anthropicApiKey.value) ELSE s1
      s3 == IF keys.geminiApiKey.present
            THEN setApiKey(s2, "geminiApiKey", keys.geminiApiKey.value) ELSE s2
      s4 == IF keys.groqApiKey.present
            THEN setApiKey(s3, "groqApiKey", keys.groqApiKey.value) ELSE s3
  IN  s4

updateReasoningSettings(st, settings) ==
  LET s1 == IF settings.useReasoningModel.present
            THEN setValue(st, "useReasoningModel", settings.useReasoningModel.value)
            ELSE st
      s2 == IF settings.reasoningModel.present
            THEN setValue(s1, "reasoningModel", settings.reasoningModel.value)
            ELSE s1
      s3 == IF settings.cloudReasoningBaseUrl.present
            THEN setValue(s2, "cloudReasoningBaseUrl", settings.cloudReasoningBaseUrl.value)
            ELSE s2
  IN  s3

updateTranscriptionSettings(st, settings) ==
  LET s1 == IF settings.useLocalWhisper.present
            THEN setValue(st, "useLocalWhisper", settings.useLocalWhisper.value)
            ELSE st
      s2 == IF settings.whisperModel.present
            THEN setValue(s1, "whisperModel", settings.whisperModel.value)
            ELSE s1
      s3 == IF settings.allowOpenAIFallback.present
            THEN setValue(s2, "allowOpenAIFallback", settings.allowOpenAIFallback.value)
            ELSE s2
      s4 == IF settings.allowLocalFallback.present
            THEN setValue(s3, "allowLocalFallback", settings.allowLocalFallback.value)
            ELSE s3
      s5 == IF settings.fallbackWhisperModel.present
            THEN setValue(s4, "fallbackWhisperModel", settings.fallbackWhisperModel.value)
            ELSE s4
      s6 == IF settings.preferredLanguage.present
            THEN setValue(s5, "preferredLanguage", settings.preferredLanguage.value)
            ELSE s5
      s7 == IF settings.cloudTranscriptionProvider.present
            THEN setValue(s6, "cloudTranscriptionProvider",
                          settings.cloudTranscriptionProvider.value)
            ELSE s6
      s8 == IF settings.cloudTranscriptionModel.present
            THEN setValue(s7, "cloudTranscriptionModel",
                          settings.cloudTranscriptionModel.value)
            ELSE s7
      s9 == IF settings.cloudTranscriptionBaseUrl.present
            THEN setValue(s8, "cloudTranscriptionBaseUrl",
                          settings.cloudTranscriptionBaseUrl.value)
            ELSE s8
  IN  s9

----------------------------------------------------------------------------
(* Inputs of the settings operations                                      *)

\* The values a caller passes for a field, in some order.
ValueSeq(field) ==
  CASE field \in BoolCells -> << FALSE, TRUE >>
    [] field = "activationMode" -> << "tap", "push" >>
    [] field = "reasoningModel" ->
         << "", "gpt-5", "llama-3.3-70b", "qwen3-claude-distill", "unknown-model-xyz" >>
    [] field = "reasoningProvider" -> << "openai", "local" >>
    [] field \in ApiKeyCells -> << "", "sk-1" >>
    [] OTHER -> << "", "custom" >>

TranscriptionFields ==
  { "useLocalWhisper", "whisperModel", "allowOpenAIFallback", "allowLocalFallback",
    "fallbackWhisperModel", "preferredLanguage", "cloudTranscriptionProvider",
    "cloudTranscriptionModel", "cloudTranscriptionBaseUrl" }

ReasoningFields ==
  { "useReasoningModel", "reasoningModel", "reasoningProvider", "cloudReasoningBaseUrl" }

\* Partial arguments over a set of fields: one field present with any of its
\* values, or no field, every field, or every field but one present with the
\* values at one position.
Batches(fields) ==
  { [h \in fields |-> IF h = fv[1] THEN Given(fv[2]) ELSE Undefined(h)] :
      fv \in UNION { { <<f, ValueSeq(f)[i]>> : i \in 1..Len(ValueSeq(f)) } :
                     f \in fields } }
  \cup
  { [h \in fields |-> IF h \in D THEN Given(ValueSeq(h)[i]) ELSE Undefined(h)] :
      D \in {{}, fields} \cup { fields \ {f} : f \in fields }, i \in 1..2 }

\* What persisted storage may hold when the application starts: nothing, a
\* configured installation, and entries left by an older version or edited
\* by hand.
EmptyStorage == [k \in {} |-> ""]

ConfiguredStorage ==
  [useLocalWhisper |-> "true", useReasoningModel |-> "true",
   reasoningModel |-> "gpt-5", openaiApiKey |-> "sk-1", groqApiKey |-> "sk-1",
   activationMode |-> "push", preferBuiltInMic |-> "false"]

LegacyStorage ==
  [useLocalWhisper |-> "1", allowOpenAIFallback |-> "TRUE", allowLocalFallback |-> "0",
   useReasoningModel |-> "yes", preferBuiltInMic |-> "no", activationMode |-> "hold",
   reasoningModel |-> "qwen3-claude-distill", reasoningProvider |-> "openai"]

InitialStorages == { EmptyStorage, ConfiguredStorage, LegacyStorage }

\* Strings an out-of-band edit may leave in an entry.
RawItems == { "true", "false", "push" }

StorageKeys == CellKeys \cup { "reasoningProvider" }

\* The entries an out-of-band edit touches: one cell of each deserialize
\* convention, the model cell, a key cell, and the entry that is no cell.
EditedKeys ==
  { "useLocalWhisper", "useReasoningModel", "activationMode", "reasoningModel",
    "groqApiKey", "reasoningProvider" }

\* At most this many settings operations.
MaxSteps == 2

----------------------------------------------------------------------------
(* The settings store as a state machine                                  *)

IdleOp == [op |-> "idle", arg |-> ""]

SettingsInit ==
  /\ localStorage \in InitialStorages
  /\ electronAPI = TRUE
  /\ ipcCalls = <<>>
  /\ cacheClears = <<>>
  /\ lastOp = IdleOp
  /\ steps = 0

\* The operation has run: its effects are the new state.
Commit(st, op) ==
  /\ localStorage' = st.storage
  /\ ipcCalls' = st.ipc
  /\ cacheClears' = st.clears
  /\ lastOp' = op
  /\ steps' = steps + 1
  /\ UNCHANGED electronAPI

Ready == lastOp.op = "idle" /\ steps < MaxSteps

SetCell ==
  /\ Ready
  /\ \E cell \in CellKeys : \E i \in 1..Len(ValueSeq(cell)) :
       Commit(setter(Effects(localStorage), cell, ValueSeq(cell)[i]),
              [op |-> "set", arg |-> [cell |-> cell, value |-> ValueSeq(cell)[i]]])

UpdateTranscriptionSettings ==
  /\ Ready
  /\ \E settings \in Batches(TranscriptionFields) :
       Commit(updateTranscriptionSettings(Effects(localStorage), settings),
              [op |-> "updateTranscriptionSettings", arg |-> settings])

UpdateReasoningSettings ==
  /\ Ready
  /\ \E settings \in Batches(ReasoningFields) :
       Commit(updateReasoningSettings(Effects(localStorage), settings),
              [op |-> "updateReasoningSettings", arg |-> settings])

UpdateApiKeys ==
  /\ Ready
  /\ \E keys \in Batches(ApiKeyCells) :
       Commit(updateApiKeys(Effects(localStorage), keys),
              [op |-> "updateApiKeys", arg |-> keys])

\* Persisted storage is edited from outside the settings store.
EditStorage ==
  /\ Ready
  /\ \E key \in EditedKeys :
       \/ \E item \in RawItems :
            Commit(Effects(SetItem(localStorage, key, item)),
                   [op |-> "editStorage", arg |-> key])
       \/ /\ key \in DOMAIN localStorage
          /\ Commit(Effects(RemoveItem(localStorage, key)),
                    [op |-> "editStorage", arg |-> key])

\* The component has rendered with the new values.
Rendered ==
  /\ lastOp.op # "idle"
  /\ lastOp' = IdleOp
  /\ ipcCalls' = <<>>
  /\ cacheClears' = <<>>
  /\ UNCHANGED <<localStorage, electronAPI, steps>>

----------------------------------------------------------------------------
(* The prompt studio (PromptStudio)                                       *)

\* Storage.getItem: <<item>>, or <<>> for null.
getItem(storage, key) == IF key \in DOMAIN storage THEN <<storage[key]>> ELSE <<>>

\* item || ""
OrEmpty(item) == IF item = <<>> THEN "" ELSE item[1]

\* Truthiness of a string or null.
Truthy(item) == item # <<>> /\ item[1] # ""

\* String.prototype.trim, for the blank that is the space character.
RECURSIVE TrimStart(_)
TrimStart(s) ==
  IF Len(s) > 0 /\ SubSeq(s, 1, 1) = " " THEN TrimStart(SubSeq(s, 2, Len(s))) ELSE s

RECURSIVE TrimEnd(_)
TrimEnd(s) ==
  IF Len(s) > 0 /\ SubSeq(s, Len(s), Len(s)) = " "
  THEN TrimEnd(SubSeq(s, 1, Len(s) - 1)) ELSE s

Trim(s) == TrimEnd(TrimStart(s))

\* charAt(0).toUpperCase() + slice(1), for the letters a to z.
Capitalize(s) ==
  LET lower == "abcdefghijklmnopqrstuvwxyz"
      upper == "ABCDEFGHIJKLMNOPQRSTUVWXYZ"
      at == { i \in 1..26 : Len(s) > 0 /\ SubSeq(lower, i, i) = SubSeq(s, 1, 1) }
  IN  IF at = {} THEN s
      ELSE LET i == CHOOSE i \in at : TRUE
           IN  SubSeq(upper, i, i) \o SubSeq(s, 2, Len(s))

\* JSON.stringify({agent, regular}) for prompts that need no escaping.
JSONStringify(prompts) ==
  "{\"agent\":\"" \o prompts.agent \o "\",\"regular\":\"" \o prompts.regular \o "\"}"

\* DEFAULT_PROMPTS of services/ReasoningService, and useAgentName's name.
DEFAULT_PROMPTS == [agent |-> "default agent prompt", regular |-> "default regular prompt"]
agentName == "Assistant"

\* The texts a user types into the two prompt editors and the test input.
AgentPrompts == { DEFAULT_PROMPTS.agent, "You are {{agentName}}." }
RegularPrompts == { DEFAULT_PROMPTS.regular, "Clean up: {{text}}" }
InitialTestText ==
  "Hey Assistant, make this more professional: This is a test message that needs some work."
TestTexts == { "  ", InitialTestText }

\* JSON.parse of a customPrompts entry: the object, when the entry is what
\* JSON.stringify made of two prompts, and a failure for any other string.
JSONParse(item) ==
  LET objects == { [agent |-> a, regular |-> r] :
                     a \in AgentPrompts \cup {""}, r \in RegularPrompts \cup {""} }
      hits == { o \in objects : JSONStringify(o) = item }
  IN  IF hits = {} THEN [ok |-> FALSE, value |-> DEFAULT_PROMPTS]
      ELSE [ok |-> TRUE, value |-> CHOOSE o \in hits : TRUE]

\* Provider configuration for UI components; "" stands for a key left out.
PROVIDER_CONFIG_NoEndpoint ==
  [openai |-> [label |-> "OpenAI", apiKeyStorageKey |-> "openaiApiKey", baseStorageKey |-> ""],
   anthropic |-> [label |-> "Anthropic", apiKeyStorageKey |-> "anthropicApiKey",
                  baseStorageKey |-> ""],
   gemini |-> [label |-> "Gemini", apiKeyStorageKey |-> "geminiApiKey", baseStorageKey |-> ""],
   groq |-> [label |-> "Groq", apiKeyStorageKey |-> "groqApiKey", baseStorageKey |-> ""],
   custom |-> [label |-> "Custom endpoint", apiKeyStorageKey |-> "openaiApiKey",
               baseStorageKey |-> ""],
   local |-> [label |-> "Local", apiKeyStorageKey |-> "", baseStorageKey |-> ""]]

PROVIDER_CONFIG ==
  [openai |-> [label |-> "OpenAI", apiKeyStorageKey |-> "openaiApiKey", baseStorageKey |-> ""],
   anthropic |-> [label |-> "Anthropic", apiKeyStorageKey |-> "anthropicApiKey",
                  baseStorageKey |-> ""],
   gemini |-> [label |-> "Gemini", apiKeyStorageKey |-> "geminiApiKey", baseStorageKey |-> ""],
   groq |-> [label |-> "Groq", apiKeyStorageKey |-> "groqApiKey", baseStorageKey |-> ""],
   custom |-> [label |-> "Custom endpoint", apiKeyStorageKey |-> "openaiApiKey",
               baseStorageKey |-> "cloudReasoningBaseUrl"],
   local |-> [label |-> "Local", apiKeyStorageKey |-> "", baseStorageKey |-> ""]]

\* PROVIDER_CONFIG[reasoningProvider] || { label: ... }
ProviderConfigOf(provider) ==
  IF provider \in DOMAIN PROVIDER_CONFIG THEN PROVIDER_CONFIG[provider]
  ELSE [label |-> Capitalize(provider), apiKeyStorageKey |-> "", baseStorageKey |-> ""]

\* What testPrompt and renderTestPlayground read from storage before
\* anything else: the switch, the model, the provider and its configuration.
ReadReasoningSettings(storage) ==
  LET reasoningModel == OrEmpty(getItem(storage, "reasoningModel"))
      provider == IF reasoningModel # "" THEN getModelProvider(reasoningModel)
                  ELSE "openai"
      providerConfig == ProviderConfigOf(provider)
  IN  [useReasoningModel |-> getItem(storage, "useReasoningModel") = <<"true">>,
       reasoningModel |-> reasoningModel,
       reasoningProvider |-> provider,
       providerLabel |-> providerConfig.label,
       baseStorageKey |-> providerConfig.baseStorageKey,
       baseUrl |-> IF providerConfig.baseStorageKey # ""
                   THEN Trim(OrEmpty(getItem(storage, providerConfig.baseStorageKey)))
                   ELSE ""]

\* The results testPrompt shows. "(!)" and "(x)" stand for the warning sign
\* and the cross mark the source puts in front.
DisabledWarning ==
  "(!) AI text enhancement is disabled. Enable it in AI Models settings to test prompts."
NoModelWarning == "(!) No reasoning model selected. Choose one in AI Models settings."
BaseUrlWarning(providerLabel) ==
  "(!) " \o providerLabel \o " base URL missing. Add it in AI Models settings."
LocalModelError(error) == "(x) Local model error: " \o error
TestFailed(message) == "(x) Test failed: " \o message

\* The end of testPrompt's inner try: a restore that leaves the entry the
\* test wrote, and the restore of the captured entry.
restoreNothing(storage, currentCustomPrompts) == storage

restorePrompts(storage, currentCustomPrompts) ==
  IF Truthy(currentCustomPrompts)
  THEN SetItem(storage, "customPrompts", currentCustomPrompts[1])
  ELSE RemoveItem(storage, "customPrompts")

----------------------------------------------------------------------------
(* The prompt studio as a state machine                                   *)

\* A cloud provider for a self-hosted endpoint, and the catalogs the studio
\* runs with.
CustomCloud ==
  CloudProviderData("custom", "Custom endpoint",
    << CloudModelDefinition("my-endpoint-model", "My endpoint model") >>)

StudioCloudCatalog == << OpenAICloud, GroqCloud, CustomCloud >>

\* What storage holds when the studio is opened.
StudioStorages ==
  { EmptyStorage,
    [useReasoningModel |-> "true", reasoningModel |-> "gpt-5"],
    [useReasoningModel |-> "true", reasoningModel |-> "qwen3-claude-distill",
     customPrompts |-> JSONStringify([agent |-> "You are {{agentName}}.",
                                      regular |-> DEFAULT_PROMPTS.regular])],
    [useReasoningModel |-> "yes", reasoningModel |-> "unknown-model-xyz"],
    [useReasoningModel |-> "true", reasoningModel |-> "my-endpoint-model",
     cloudReasoningBaseUrl |-> "  "] }

\* The values the settings store writes while the studio is open.
StudioSettings ==
  [useReasoningModel |-> << FALSE, TRUE >>,
   reasoningModel |-> << "", "gpt-5", "qwen3-claude-distill", "unknown-model-xyz",
                         "my-endpoint-model" >>,
   cloudReasoningBaseUrl |-> << "", "  ", "https://llm.example/v1" >>]

\* How a provider call ends: with a text, with a failure result (the local
\* runtime only), or with an exception.
ProviderOutcomes ==
  { [kind |-> "text", payload |-> "Enhanced text."],
    [kind |-> "failure", payload |-> "model not loaded"],
    [kind |-> "throw", payload |-> "network down"] }

\* Of what renderTestPlayground reads, the part that decides whether the
\* Test button can be used; the model, label and endpoint it reads are only
\* displayed.
NotRendered == [rendered |-> FALSE, useReasoningModel |-> FALSE]

renderTestPlayground(storage) ==
  [rendered |-> TRUE,
   useReasoningModel |-> ReadReasoningSettings(storage).useReasoningModel]

\* pc, reasoningProvider and currentCustomPrompts are the call's own; before
\* (the customPrompts entry when the call began), written (the entry another
\* handler left while the call waited, if one did) and outcome (how the
\* call went) are kept for the properties.
NoTestRun ==
  [pc |-> "idle", reasoningProvider |-> "", currentCustomPrompts |-> <<>>,
   before |-> <<>>, written |-> <<>>, outcome |-> ""]

NoEvent == [op |-> "idle", before |-> <<>>]

\* The handler named op has run on a storage whose customPrompts entry was
\* the one given.
Event(op) == [op |-> op, before |-> getItem(localStorage, "customPrompts")]

\* A write of the customPrompts entry by another handler while a test waits
\* for its provider is noted in the run.
NoteWrite(storage) ==
  IF testRun.pc = "awaiting"
  THEN [testRun EXCEPT !.written = << getItem(storage, "customPrompts") >>]
  ELSE testRun

\* The component is mounted and its effect has loaded the saved prompts.
StudioMounted ==
  /\ activeTab = "current"
  /\ LET savedPrompts == getItem(localStorage, "customPrompts")
         parsed == JSONParse(OrEmpty(savedPrompts))
     IN  IF Truthy(savedPrompts) /\ parsed.ok
         THEN /\ editedAgentPrompt = IF parsed.value.agent # "" THEN parsed.value.agent
                                     ELSE DEFAULT_PROMPTS.agent
              /\ editedRegularPrompt = IF parsed.value.regular # "" THEN parsed.value.regular
                                       ELSE DEFAULT_PROMPTS.regular
         ELSE /\ editedAgentPrompt = DEFAULT_PROMPTS.agent
              /\ editedRegularPrompt = DEFAULT_PROMPTS.regular
  /\ testText = InitialTestText
  /\ testResult = ""
  /\ isLoading = FALSE
  /\ alertDialog = ""
  /\ playground = NotRendered
  /\ testRun = NoTestRun
  /\ providerCalls = <<>>
  /\ lastEvent = NoEvent
  /\ events = 0

StudioInit ==
  /\ cloudProviders = StudioCloudCatalog
  /\ localProviders = << QwenLocal, LlamaLocal >>
  /\ providers = registerProvidersFromData(<<>>, localProviders)
  /\ REASONING_PROVIDERS = buildReasoningProviders(cloudProviders, providers)
  /\ registered = [i \in 1..Len(localProviders) |-> ModelProvider(localProviders[i])]
  /\ call = Idle
  /\ fmt = FormatIdle
  /\ localStorage \in StudioStorages
  /\ electronAPI = TRUE
  /\ ipcCalls = <<>>
  /\ cacheClears = <<>>
  /\ lastOp = IdleOp
  /\ steps = 0
  /\ StudioMounted

\* At most this many handlers and settings changes are followed.
MaxEvents == 7

AtRest == lastEvent.op = "idle" /\ events < MaxEvents

SetActiveTab ==
  /\ AtRest
  /\ \E tab \in { "current", "edit", "test" } :
       /\ tab # activeTab
       /\ activeTab' = tab
  /\ events' = events + 1
  /\ lastEvent' = Event("setActiveTab")
  /\ UNCHANGED <<localStorage, editedAgentPrompt, editedRegularPrompt, testText,
                 testResult, isLoading, alertDialog, playground, testRun, providerCalls>>

SetEditedAgentPrompt ==
  /\ AtRest /\ activeTab = "edit"
  /\ \E value \in AgentPrompts :
       /\ value # editedAgentPrompt
       /\ editedAgentPrompt' = value
  /\ events' = events + 1
  /\ lastEvent' = Event("setEditedAgentPrompt")
  /\ UNCHANGED <<localStorage, activeTab, editedRegularPrompt, testText, testResult,
                 isLoading, alertDialog, playground, testRun, providerCalls>>

SetEditedRegularPrompt ==
  /\ AtRest /\ activeTab = "edit"
  /\ \E value \in RegularPrompts :
       /\ value # editedRegularPrompt
       /\ editedRegularPrompt' = value
  /\ events' = events + 1
  /\ lastEvent' = Event("setEditedRegularPrompt")
  /\ UNCHANGED <<localStorage, activeTab, editedAgentPrompt, testText, testResult,
                 isLoading, alertDialog, playground, testRun, providerCalls>>

SetTestText ==
  /\ AtRest /\ activeTab = "test"
  /\ \E value \in TestTexts :
       /\ value # testText
       /\ testText' = value
  /\ events' = events + 1
  /\ lastEvent' = Event("setTestText")
  /\ UNCHANGED <<localStorage, activeTab, editedAgentPrompt, editedRegularPrompt,
                 testResult, isLoading, alertDialog, playground, testRun, providerCalls>>

HideAlertDialog ==
  /\ AtRest /\ alertDialog # ""
  /\ alertDialog' = ""
  /\ events' = events + 1
  /\ lastEvent' = Event("hideAlertDialog")
  /\ UNCHANGED <<localStorage, activeTab, editedAgentPrompt, editedRegularPrompt,
                 testText, testResult, isLoading, playground, testRun, providerCalls>>

SavePrompts ==
  /\ AtRest /\ activeTab = "edit"
  /\ LET customPrompts == [agent |-> editedAgentPrompt, regular |-> editedRegularPrompt]
         storage == SetItem(localStorage, "customPrompts", JSONStringify(customPrompts))
     IN  /\ localStorage' = storage
         /\ testRun' = NoteWrite(storage)
  /\ alertDialog' = "Prompts Saved!"
  /\ events' = events + 1
  /\ lastEvent' = Event("savePrompts")
  /\ UNCHANGED <<activeTab, editedAgentPrompt, editedRegularPrompt, testText,
                 testResult, isLoading, playground, providerCalls>>

ResetToDefaults ==
  /\ AtRest /\ activeTab = "edit"
  /\ editedAgentPrompt' = DEFAULT_PROMPTS.agent
  /\ editedRegularPrompt' = DEFAULT_PROMPTS.regular
  /\ LET storage == RemoveItem(localStorage, "customPrompts")
     IN  /\ localStorage' = storage
         /\ testRun' = NoteWrite(storage)
  /\ alertDialog' = "Reset Complete"
  /\ events' = events + 1
  /\ lastEvent' = Event("resetToDefaults")
  /\ UNCHANGED <<activeTab, testText, testResult, isLoading, playground, providerCalls>>

\* The Test button: testPrompt up to its first await, or to its return.
TestPrompt ==
  /\ AtRest /\ activeTab = "test" /\ playground.rendered
  /\ ~(Trim(testText) = "" \/ isLoading \/ ~playground.useReasoningModel)
  /\ events' = events + 1
  /\ lastEvent' = Event("testPrompt")
  /\ UNCHANGED <<activeTab, editedAgentPrompt, editedRegularPrompt, testText,
                 alertDialog, playground>>
  /\ LET read == ReadReasoningSettings(localStorage)
         customPrompts == [agent |-> editedAgentPrompt, regular |-> editedRegularPrompt]
         warned(result, outcome) ==
           /\ testResult' = result
           /\ isLoading' = FALSE
           /\ testRun' = [NoTestRun EXCEPT !.outcome = outcome]
           /\ providerCalls' = <<>>
           /\ UNCHANGED localStorage
     IN  IF Trim(testText) = ""
         THEN UNCHANGED <<localStorage, testResult, isLoading, testRun, providerCalls>>
         ELSE IF ~read.useReasoningModel
         THEN warned(DisabledWarning, "disabled")
         ELSE IF read.reasoningModel = ""
         THEN warned(NoModelWarning, "noModel")
         ELSE IF read.baseStorageKey # "" /\ read.baseUrl = ""
         THEN warned(BaseUrlWarning(read.providerLabel), "noBaseUrl")
         ELSE /\ testResult' = ""
              /\ isLoading' = TRUE
              /\ localStorage' = SetItem(localStorage, "customPrompts",
                                         JSONStringify(customPrompts))
              /\ providerCalls' =
                   << [method |-> IF read.reasoningProvider = "local"
                                  THEN "processLocalReasoning" ELSE "processText",
                       text |-> testText, model |-> read.reasoningModel,
                       agentName |-> agentName, customPrompts |-> customPrompts] >>
              /\ testRun' = [pc |-> "awaiting",
                             reasoningProvider |-> read.reasoningProvider,
                             currentCustomPrompts |-> getItem(localStorage, "customPrompts"),
                             before |-> lastEvent'.before,
                             written |-> <<>>, outcome |-> "called"]

\* The provider call ends and testPrompt runs to its end: the result is
\* shown, the captured prompts are restored, loading is over.
ProviderSettles ==
  /\ AtRest /\ testRun.pc = "awaiting"
  /\ \E outcome \in ProviderOutcomes :
       /\ outcome.kind = "failure" => testRun.reasoningProvider = "local"
       /\ testResult' = CASE outcome.kind = "text" -> outcome.payload
                          [] outcome.kind = "failure" -> LocalModelError(outcome.payload)
                          [] outcome.kind = "throw" -> TestFailed(outcome.payload)
       /\ testRun' = [testRun EXCEPT !.pc = "idle", !.outcome = outcome.kind]
  /\ localStorage' = restorePrompts(localStorage, testRun.currentCustomPrompts)
  /\ isLoading' = FALSE
  /\ events' = events + 1
  /\ lastEvent' = Event("providerSettled")
  /\ UNCHANGED <<activeTab, editedAgentPrompt, editedRegularPrompt, testText,
                 alertDialog, playground, providerCalls>>

\* The settings store, used elsewhere in the application, writes one of the
\* cells the studio reads; the studio is not rendered again for it.
SettingsChanged ==
  /\ AtRest
  /\ \E cell \in DOMAIN StudioSettings : \E i \in 1..Len(StudioSettings[cell]) :
       /\ getItem(localStorage, cell) # << serialize(cell, StudioSettings[cell][i]) >>
       /\ localStorage' = setter(Effects(localStorage), cell, StudioSettings[cell][i]).storage
  /\ events' = events + 1
  /\ UNCHANGED <<activeTab, editedAgentPrompt, editedRegularPrompt, testText,
                 testResult, isLoading, alertDialog, playground, testRun,
                 providerCalls, lastEvent>>

\* React renders the component after a handler has run. A testPrompt call
\* that has returned leaves nothing behind but the component's state.
Rerender ==
  /\ lastEvent.op # "idle"
  /\ lastEvent' = NoEvent
  /\ playground' = IF activeTab = "test" THEN renderTestPlayground(localStorage)
                   ELSE NotRendered
  /\ testRun' = IF testRun.pc = "awaiting" THEN testRun ELSE NoTestRun
  /\ providerCalls' = IF testRun.pc = "awaiting" THEN providerCalls ELSE <<>>
  /\ UNCHANGED <<localStorage, activeTab, editedAgentPrompt, editedRegularPrompt,
                 testText, testResult, isLoading, alertDialog, events>>

----------------------------------------------------------------------------
(* Specifications                                                         *)

\* A start-up with the full catalog, for the parts that only use the registry.
RegistryLoaded ==
  /\ cloudProviders = << GroqCloud, GeminiCloud, OpenAICloud >>
  /\ localProviders = << QwenLocal, LlamaLocal, GemmaLocal >>
  /\ providers = registerProvidersFromData(<<>>, localProviders)
  /\ REASONING_PROVIDERS = buildReasoningProviders(cloudProviders, providers)
  /\ registered = [i \in 1..Len(localProviders) |-> ModelProvider(localProviders[i])]
  /\ call = Idle

SettingsAtRest ==
  /\ localStorage = EmptyStorage
  /\ electronAPI = TRUE
  /\ ipcCalls = <<>>
  /\ cacheClears = <<>>
  /\ lastOp = IdleOp
  /\ steps = 0

\* The registry and the resolver.
Init == RegistryInit /\ fmt = FormatIdle /\ SettingsAtRest /\ StudioMounted
Next ==
  \/ Return /\ UNCHANGED <<fmtVars, setVars, studioVars>>
  \/ RegisterProvider /\ UNCHANGED <<fmtVars, setVars, studioVars>>
  \/ GetProvider /\ UNCHANGED <<fmtVars, setVars, studioVars>>
  \/ GetAllProviders /\ UNCHANGED <<fmtVars, setVars, studioVars>>
  \/ GetModel /\ UNCHANGED <<fmtVars, setVars, studioVars>>
  \/ GetAllModels /\ UNCHANGED <<fmtVars, setVars, studioVars>>
  \/ GetReasoningModelLabel /\ UNCHANGED <<fmtVars, setVars, studioVars>>
  \/ GetModelProvider /\ UNCHANGED <<fmtVars, setVars, studioVars>>
Spec == Init /\ [][Next]_vars

\* The prompt formatter.
FormatInit == RegistryLoaded /\ fmt = FormatIdle /\ SettingsAtRest /\ StudioMounted
FormatStep ==
  \/ FormatPrompt /\ UNCHANGED <<regVars, setVars, studioVars>>
  \/ FormatReturn /\ UNCHANGED <<regVars, setVars, studioVars>>
FormatSpec == FormatInit /\ [][FormatStep]_vars

\* The settings store.
SettingsStart == RegistryLoaded /\ fmt = FormatIdle /\ SettingsInit /\ StudioMounted
SettingsStep ==
  \/ SetCell /\ UNCHANGED <<regVars, fmtVars, studioVars>>
  \/ UpdateTranscriptionSettings /\ UNCHANGED <<regVars, fmtVars, studioVars>>
  \/ UpdateReasoningSettings /\ UNCHANGED <<regVars, fmtVars, studioVars>>
  \/ UpdateApiKeys /\ UNCHANGED <<regVars, fmtVars, studioVars>>
  \/ EditStorage /\ UNCHANGED <<regVars, fmtVars, studioVars>>
  \/ Rendered /\ UNCHANGED <<regVars, fmtVars, studioVars>>
SettingsSpec == SettingsStart /\ [][SettingsStep]_vars

\* The prompt studio.
studioFrame == <<regVars, fmtVars, electronAPI, ipcCalls, cacheClears, lastOp, steps>>
StudioStep ==
  \/ SetActiveTab /\ UNCHANGED studioFrame
  \/ SetEditedAgentPrompt /\ UNCHANGED studioFrame
  \/ SetEditedRegularPrompt /\ UNCHANGED studioFrame
  \/ SetTestText /\ UNCHANGED studioFrame
  \/ HideAlertDialog /\ UNCHANGED studioFrame
  \/ SavePrompts /\ UNCHANGED studioFrame
  \/ ResetToDefaults /\ UNCHANGED studioFrame
  \/ TestPrompt /\ UNCHANGED studioFrame
  \/ ProviderSettles /\ UNCHANGED studioFrame
  \/ SettingsChanged /\ UNCHANGED studioFrame
  \/ Rerender /\ UNCHANGED studioFrame
StudioSpec == StudioInit /\ [][StudioStep]_vars

----------------------------------------------------------------------------
(* Properties of the prompt formatter                                     *)

\* The text with the first occurrence of the marker replaced by the given
\* text as it stands, and unchanged when the marker does not occur.
FirstOccurrenceReplaced(str, marker, by) ==
  LET n == Len(marker)
      at == { i \in 1..(Len(str) - n + 1) : SubSeq(str, i, i + n - 1) = marker }
      first == CHOOSE i \in at : \A j \in at : i <= j
  IN  IF at = {} THEN str
      ELSE SubSeq(str, 1, first - 1) \o by \o SubSeq(str, first + n, Len(str))

\* C6: formatPrompt puts systemPrompt in place of the first "{system}" and
\* then text in place of the first "{user}"; later occurrences of a marker
\* and all other text of the template stay as they are.
C6_FirstOccurrenceOnly ==
  fmt.op = "formatPrompt" =>
    fmt.ret = FirstOccurrenceReplaced(
                FirstOccurrenceReplaced(fmt.template, "{system}", fmt.systemPrompt),
                "{user}", fmt.text)

----------------------------------------------------------------------------
(* Properties of the settings store                                       *)

\* The entry of a key: <<item>>, or <<>> when the key is not stored.
Entry(storage, key) == IF key \in DOMAIN storage THEN <<storage[key]>> ELSE <<>>

\* What the resolver is to return for an id: the key of the first bucket of
\* the view that lists it, else the provider of the first matching rule.
ExpectedProvider(id) ==
  IF ViewHits(id) # {} THEN REASONING_PROVIDERS[FirstViewHit(id)[1]].key
  ELSE FirstRuleProvider(id)

OnlyPresent(arg, fields) == \A f \in DOMAIN arg : arg[f].present <=> f \in fields

\* C3: the reasoningProvider the store exposes is always the resolver's answer
\* for the current reasoningModel cell; no operation of the store writes a
\* reasoningProvider entry; updateReasoningSettings with only a
\* reasoningProvider field leaves the storage as it is.
C3_ProviderDerived ==
  /\ [](reasoningProvider = ExpectedProvider(CellValue("reasoningModel")))
  /\ [][ /\ lastOp'.op # "editStorage" =>
              Entry(localStorage', "reasoningProvider")
                = Entry(localStorage, "reasoningProvider")
         /\ ( /\ lastOp'.op = "updateReasoningSettings"
              /\ OnlyPresent(lastOp'.arg, {"reasoningProvider"}) ) =>
              localStorage' = localStorage ]_vars

\* updateReasoningSettings({reasoningProvider: "openai"}) ran while the model
\* cell held an id that resolves to groq.
C3_Witness ==
  /\ lastOp.op = "updateReasoningSettings"
  /\ OnlyPresent(lastOp.arg, {"reasoningProvider"})
  /\ lastOp.arg.reasoningProvider.value = "openai"
  /\ CellValue("reasoningModel") = "llama-3.3-70b"
  /\ reasoningProvider = "groq"

\* C4: a batch update sets each cell whose field is present to the value
\* given, "" and false included, and leaves every other entry as it was.
C4_BatchFrame ==
  [][ lastOp'.op \in { "updateTranscriptionSettings", "updateReasoningSettings",
                       "updateApiKeys" } =>
        \A key \in StorageKeys :
          IF key \in DOMAIN lastOp'.arg /\ key # "reasoningProvider"
             /\ lastOp'.arg[key].present
          THEN /\ key \in DOMAIN localStorage'
               /\ CellValueOf(localStorage', key) = lastOp'.arg[key].value
          ELSE Entry(localStorage', key) = Entry(localStorage, key) ]_vars

\* updateApiKeys({groqApiKey: ""}) ran on a store holding an OpenAI and a Groq
\* key: the Groq cell is now empty, the OpenAI cell is as before.
C4_Witness ==
  /\ lastOp.op = "updateApiKeys"
  /\ OnlyPresent(lastOp.arg, {"groqApiKey"})
  /\ lastOp.arg.groqApiKey.value = ""
  /\ steps = 1
  /\ Entry(localStorage, "groqApiKey") = <<"">>
  /\ Entry(localStorage, "openaiApiKey") = <<"sk-1">>

\* C5: a value written by a cell's setter is read back unchanged: the stored
\* string deserializes to the value set.
C5_RoundTrip ==
  lastOp.op = "set" =>
    /\ lastOp.arg.cell \in DOMAIN localStorage
    /\ deserialize(lastOp.arg.cell, localStorage[lastOp.arg.cell]) = lastOp.arg.value
    /\ CellValue(lastOp.arg.cell) = lastOp.arg.value

\* false was written to a cell that reads true by default.
C5_Witness ==
  /\ lastOp.op = "set"
  /\ lastOp.arg.cell = "useReasoningModel"
  /\ lastOp.arg.value = FALSE
  /\ CellValue("useReasoningModel") = FALSE

Occurrences(seq, x) == Cardinality({ i \in 1..Len(seq) : seq[i] = x })

\* C9: updateApiKeys writes the cell, hands the key to the key store and
\* clears the reasoning service's cache of that provider for each key field
\* present, and does none of the three for a field that is absent.
C9_ApiKeyEffects ==
  [][ lastOp'.op = "updateApiKeys" =>
        /\ \A i \in 1..Len(cacheClears') :
             cacheClears'[i] \in { "openai", "anthropic", "gemini", "groq" }
        /\ \A fps \in { <<"openaiApiKey", "openai", "saveOpenAIKey">>,
                        <<"anthropicApiKey", "anthropic", "saveAnthropicKey">>,
                        <<"geminiApiKey", "gemini", "saveGeminiKey">>,
                        <<"groqApiKey", "groq", "saveGroqKey">> } :
             LET field == lastOp'.arg[fps[1]]
                 saves == { i \in 1..Len(ipcCalls') : ipcCalls'[i][1] = fps[3] }
             IN  IF field.present
                 THEN /\ Entry(localStorage', fps[1]) = <<field.value>>
                      /\ Cardinality(saves) = 1
                      /\ \A i \in saves : ipcCalls'[i][2] = field.value
                      /\ Occurrences(cacheClears', fps[2]) = 1
                 ELSE /\ Entry(localStorage', fps[1]) = Entry(localStorage, fps[1])
                      /\ saves = {}
                      /\ Occurrences(cacheClears', fps[2]) = 0 ]_vars

\* updateApiKeys ran with only the Groq key: one key-store call, one cache
\* entry cleared.
C9_Witness ==
  /\ lastOp.op = "updateApiKeys"
  /\ OnlyPresent(lastOp.arg, {"groqApiKey"})
  /\ ipcCalls = << <<"saveGroqKey", lastOp.arg.groqApiKey.value>> >>
  /\ cacheClears = << "groq" >>

\* C10: whatever string is stored, a cell reads a value of its type:
\* useLocalWhisper, allowOpenAIFallback and allowLocalFallback read true
\* exactly for "true"; useReasoningModel and preferBuiltInMic read false
\* exactly for "false"; activationMode reads "push" exactly for "push" and
\* "tap" otherwise; every other cell reads the string itself.
C10_TotalDeserialize ==
  \A key \in CellKeys \cap DOMAIN localStorage :
    LET read == deserialize(key, localStorage[key]) IN
    CASE key \in { "useLocalWhisper", "allowOpenAIFallback", "allowLocalFallback" } ->
           /\ read \in BOOLEAN
           /\ read <=> localStorage[key] = "true"
      [] key \in { "useReasoningModel", "preferBuiltInMic" } ->
           /\ read \in BOOLEAN
           /\ ~read <=> localStorage[key] = "false"
      [] key = "activationMode" ->
           /\ read \in { "tap", "push" }
           /\ read = "push" <=> localStorage[key] = "push"
      [] OTHER -> read = localStorage[key]

\* Entries that are neither "true" nor "false" are read: one as true by a
\* cell of the one convention, one as false by a cell of the other, and an
\* activation mode that is neither "tap" nor "push" as "tap".
C10_Witness ==
  /\ lastOp.op = "editStorage"
  /\ Entry(localStorage, "useReasoningModel") = <<"push">>
  /\ deserialize("useReasoningModel", "push") = TRUE
  /\ Entry(localStorage, "useLocalWhisper") = <<"1">>
  /\ deserialize("useLocalWhisper", "1") = FALSE
  /\ Entry(localStorage, "activationMode") = <<"hold">>
  /\ deserialize("activationMode", "hold") = "tap"

----------------------------------------------------------------------------
(* Properties of registration                                             *)

RegistrationsOf(id) == { i \in 1..Len(registered) : registered[i].id = id }

FirstRegistration(id) ==
  CHOOSE i \in RegistrationsOf(id) : \A j \in RegistrationsOf(id) : i <= j

LastRegistration(id) ==
  CHOOSE i \in RegistrationsOf(id) : \A j \in RegistrationsOf(id) : i >= j

\* C11: getProvider(id) returns the provider of the latest registerProvider
\* call with that id, and nothing for an id never registered;
\* getAllProviders() has one entry for each registered id, the entries in the
\* order in which the ids were first registered.
C11_LastWriteWins ==
  /\ call.op = "getProvider" =>
       IF RegistrationsOf(call.arg) = {} THEN ~call.ret.found
       ELSE /\ call.ret.found
            /\ call.ret.provider = registered[LastRegistration(call.arg)]
  /\ call.op = "getAllProviders" =>
       /\ { call.ret[i].id : i \in 1..Len(call.ret) }
            = { registered[i].id : i \in 1..Len(registered) }
       /\ \A i, j \in 1..Len(call.ret) :
            /\ i # j => call.ret[i].id # call.ret[j].id
            /\ i < j => FirstRegistration(call.ret[i].id)
                          < FirstRegistration(call.ret[j].id)
       /\ \A i \in 1..Len(call.ret) :
            call.ret[i] = registered[LastRegistration(call.ret[i].id)]

\* An id of the catalog was registered again with other models, and a new
\* id after it: getAllProviders has the newer revision at the old place and
\* the new provider last.
C11_Witness ==
  /\ call.op = "getAllProviders"
  /\ Len(registered) = 4
  /\ registered[1] = ModelProvider(QwenLocal)
  /\ registered[3] = ModelProvider(QwenLocalV2)
  /\ registered[4] = ModelProvider(PhiLocal)
  /\ Len(call.ret) = 3
  /\ call.ret[1] = ModelProvider(QwenLocalV2)
  /\ call.ret[3] = ModelProvider(PhiLocal)

\* C14: the resolver and the label lookup see the registry as it is when
\* they are called: a model of a provider registered after start-up, listed
\* nowhere in the catalog, resolves to "local" and is labelled "Local AI"
\* followed by its name.
C14_ViewFollowsRegistry ==
  \A k \in 1..Len(CurrentModels) :
    CurrentModels[k].id \notin CatalogIds =>
      /\ ( call.op = "getModelProvider" /\ call.arg = CurrentModels[k].id ) =>
           call.ret = "local"
      /\ ( call.op = "getReasoningModelLabel" /\ call.arg = CurrentModels[k].id ) =>
           call.ret = "Local AI " \o CurrentModels[k].name

----------------------------------------------------------------------------
(* The formatter on templates with one marker of each kind                *)

MarkerPositions(str, marker) ==
  { i \in 1..(Len(str) - Len(marker) + 1) : SubSeq(str, i, i + Len(marker) - 1) = marker }

\* The template with the text given for each marker put at the marker's own
\* place, for a template holding each marker once.
SubstitutedAtMarkers(template, text, systemPrompt) ==
  LET s == CHOOSE i \in MarkerPositions(template, "{system}") : TRUE
      u == CHOOSE i \in MarkerPositions(template, "{user}") : TRUE
      n == Len(template)
  IN  IF s < u
      THEN SubSeq(template, 1, s - 1) \o systemPrompt \o SubSeq(template, s + 8, u - 1)
             \o text \o SubSeq(template, u + 6, n)
      ELSE SubSeq(template, 1, u - 1) \o text \o SubSeq(template, u + 6, s - 1)
             \o systemPrompt \o SubSeq(template, s + 8, n)

\* C18: on a template that holds each marker exactly once, formatPrompt gives
\* the template with systemPrompt at the "{system}" marker and text at the
\* template's own "{user}" marker, both as they stand, whatever they contain,
\* a "{user}" inside systemPrompt included.
C18_VerbatimAtMarkers ==
  ( /\ fmt.op = "formatPrompt"
    /\ Cardinality(MarkerPositions(fmt.template, "{system}")) = 1
    /\ Cardinality(MarkerPositions(fmt.template, "{user}")) = 1 ) =>
    fmt.ret = SubstitutedAtMarkers(fmt.template, fmt.text, fmt.systemPrompt)

----------------------------------------------------------------------------
(* Properties of the prompt test                                          *)

\* The reasoning model in storage, "" when there is none.
StoredModel == IF "reasoningModel" \in DOMAIN localStorage
               THEN localStorage["reasoningModel"] ELSE ""

\* The base URL in storage has nothing but blanks in it, or is not there.
StoredBaseUrlBlank ==
  "cloudReasoningBaseUrl" \in DOMAIN localStorage =>
    \A i \in 1..Len(localStorage["cloudReasoningBaseUrl"]) :
      SubSeq(localStorage["cloudReasoningBaseUrl"], i, i) = " "

IsWarning(result) == Len(result) >= 3 /\ SubSeq(result, 1, 3) = "(!)"

\* C12: when the stored model is not empty and the resolver has no provider
\* for it, testPrompt calls no provider and shows a configuration message.
C12_UnknownProviderStops ==
  ( /\ lastEvent.op = "testPrompt"
    /\ StoredModel # ""
    /\ ExpectedProvider(StoredModel) = "" ) =>
    /\ providerCalls = <<>>
    /\ IsWarning(testResult)

\* C13: testPrompt calls no provider and leaves the customPrompts entry as it
\* was when text enhancement is off, or no model is stored, or the provider
\* needs a base URL (the custom endpoint, by PROVIDER_CONFIG) and the stored
\* one is blank; it then shows a warning and is not loading.
C13_GuardsStopTheTest ==
  ( /\ lastEvent.op = "testPrompt"
    /\ \/ Entry(localStorage, "useReasoningModel") # <<"true">>
       \/ StoredModel = ""
       \/ ExpectedProvider(StoredModel) = "custom" /\ StoredBaseUrlBlank ) =>
    /\ providerCalls = <<>>
    /\ Entry(localStorage, "customPrompts") = lastEvent.before
    /\ IsWarning(testResult)
    /\ ~isLoading

\* The test was run for a model of the custom endpoint while the stored base
\* URL was two blanks.
C13_Witness ==
  /\ lastEvent.op = "testPrompt"
  /\ StoredModel = "my-endpoint-model"
  /\ Entry(localStorage, "useReasoningModel") = <<"true">>
  /\ Entry(localStorage, "cloudReasoningBaseUrl") = <<"  ">>
  /\ testResult = "(!) Custom endpoint base URL missing. Add it in AI Models settings."
  /\ providerCalls = <<>>

\* C15: prompts saved, or reset, while a test waits for its provider are
\* still what storage holds when the test has finished.
C15_SaveSurvivesTest ==
  ( lastEvent.op = "providerSettled" /\ testRun.written # <<>> ) =>
    Entry(localStorage, "customPrompts") = testRun.written[1]

\* C16: a test that called its provider, with no other write of the
\* customPrompts entry meanwhile, leaves the entry as it was before the test,
\* however the call ended; and no test that has finished is still loading.
C16_TestRestoresPrompts ==
  /\ ( lastEvent.op = "providerSettled" /\ testRun.written = <<>> ) =>
       Entry(localStorage, "customPrompts") = testRun.before
  /\ ( lastEvent.op \in { "testPrompt", "providerSettled" } /\ testRun.pc # "awaiting" ) =>
       ~isLoading

\* A test ran with edited prompts that differ from the saved ones and its
\* provider threw: the saved prompts are back.
C16_Witness ==
  /\ lastEvent.op = "providerSettled"
  /\ testRun.outcome = "throw"
  /\ testRun.written = <<>>
  /\ testRun.before # <<>>
  /\ testRun.before # << JSONStringify([agent |-> editedAgentPrompt,
                                        regular |-> editedRegularPrompt]) >>
  /\ Entry(localStorage, "customPrompts") = testRun.before
  /\ ~isLoading

\* C17: whatever the useReasoningModel entry holds, the playground takes text
\* enhancement to be on exactly when the settings store's cell reads true:
\* at every render of the playground, and in every run of testPrompt.
C17_SameSwitchReading ==
  /\ [][ ( lastEvent.op # "idle" /\ lastEvent'.op = "idle" /\ activeTab = "test" ) =>
           ( playground'.useReasoningModel
               <=> CellValueOf(localStorage', "useReasoningModel") ) ]_vars
  /\ []( lastEvent.op = "testPrompt" =>
           ( testResult # DisabledWarning
               <=> CellValueOf(localStorage, "useReasoningModel") ) )

====
